---- MODULE Spec2Model ----
(***************************************************************************)
(* Model of the file-processing pipeline of uni-llm-boosted:               *)
(*   data_loader.py         loaders and DataLoaderFactory                  *)
(*   vertex_integration.py  GeminiVertexAIProcessor                        *)
(* Paths and extensions are sequences of one-character strings, so that    *)
(* Path(p).suffix and str.lower() are computed, not assumed.               *)
(***************************************************************************)
EXTENDS Integers, Sequences, FiniteSets, TLC

VARIABLES
    r_path,          \* SpecResolve: the path under test
    r_loader,        \* SpecResolve: outcome of get_loader(r_path)
    r_mime,          \* SpecResolve: outcome of _get_mime_type(r_path)
    s_source,        \* SpecSheet: the table as stored in the file
    s_loaded,        \* SpecSheet: outcome of SpreadsheetLoader.load
    s_lines,         \* SpecSheet: outcome of _spreadsheet_to_text
    p_in,            \* SpecPrompt: config and arguments of _generate_prompt
    p_out,           \* SpecPrompt: outcome of _generate_prompt
    config,          \* Spec: self.config
    now,             \* Spec: the latest reading of pd.Timestamp.now(), in seconds
    outputs,         \* Spec: the output directory, filename -> JSON document
    calls,           \* Spec: number of process_file calls started
    saved,           \* Spec: number of _save_results calls that completed
    pc,              \* Spec: position inside process_file
    args,            \* Spec: arguments of the current process_file call
    loader,          \* Spec: local `loader`
    file,            \* Spec: the file found at args.file_path by the loader
    processed_data,  \* Spec: local `processed_data`
    prompt,          \* Spec: local `prompt`
    request,         \* Spec: `contents` handed to generate_content
    response,        \* Spec: local `response`
    results,         \* Spec: local `results` of _format_results
    result,          \* Spec: value returned by process_file
    error,           \* Spec: exception raised by process_file
    origin,          \* Spec: stage and exception where the failure arose
    trace,           \* Spec: stages entered by the current call, in order
    genCalls         \* Spec: generate_content invocations of the current call

resolveVars == <<r_path, r_loader, r_mime>>
sheetVars == <<s_source, s_loaded, s_lines>>
promptVars == <<p_in, p_out>>
callVars == <<pc, args, loader, file, processed_data, prompt, request, response,
              results, result, error, origin, trace, genCalls>>
procVars == <<config, now, outputs, calls, saved>>
vars == <<resolveVars, sheetVars, promptVars, procVars, callVars>>

-----------------------------------------------------------------------------
(* Bounds *)

MaxRows == 15        \* rows of a spreadsheet in SpecSheet
MaxCalls == 2        \* process_file calls per behaviour in Spec
MaxSec == 1          \* clock readings 0..MaxSec, in seconds

-----------------------------------------------------------------------------
(* Optional values and outcomes of calls that may raise *)

None == [some |-> FALSE]
Some(v) == [some |-> TRUE, v |-> v]

Ok(v) == [ok |-> TRUE, val |-> v]
Raise(e) == [ok |-> FALSE, err |-> e]

-----------------------------------------------------------------------------
(* str.lower() and Path(p).suffix *)

UpperChars == <<"A", "B", "C", "D", "E", "F", "G", "H", "I", "J", "K", "L", "M",
                "N", "O", "P", "Q", "R", "S", "T", "U", "V", "W", "X", "Y", "Z">>
LowerChars == <<"a", "b", "c", "d", "e", "f", "g", "h", "i", "j", "k", "l", "m",
                "n", "o", "p", "q", "r", "s", "t", "u", "v", "w", "x", "y", "z">>

LowerChar(c) ==
    IF \E i \in 1..Len(UpperChars) : UpperChars[i] = c
    THEN LowerChars[CHOOSE i \in 1..Len(UpperChars) : UpperChars[i] = c]
    ELSE c

Lower(s) == [i \in 1..Len(s) |-> LowerChar(s[i])]

\* index of the last occurrence of c in s, 0 when there is none (str.rfind + 1)
RFind(s, c) ==
    IF \E i \in 1..Len(s) : s[i] = c
    THEN CHOOSE i \in 1..Len(s) : s[i] = c /\ \A j \in (i+1)..Len(s) : s[j] # c
    ELSE 0

\* PurePath.name: the final path component
PathName(p) == SubSeq(p, RFind(p, "/") + 1, Len(p))

\* PurePath.suffix: from the last dot of the name, unless that dot is the
\* first or the last character of the name (Python 3.14 gives "." for a name
\* that ends in a dot; neither "" nor "." is an extension of any loader)
Suffix(p) ==
    LET name == PathName(p)
        i == RFind(name, ".")
    IN  IF 1 < i /\ i < Len(name) THEN SubSeq(name, i, Len(name)) ELSE <<>>

-----------------------------------------------------------------------------
(* data_loader.py: supports() of the four loaders and the factory *)

ImageExtensions ==
    << <<".", "j", "p", "g">>, <<".", "j", "p", "e", "g">>, <<".", "p", "n", "g">>,
       <<".", "g", "i", "f">>, <<".", "b", "m", "p">>, <<".", "w", "e", "b", "p">> >>
TextExtensions ==
    << <<".", "t", "x", "t">>, <<".", "m", "d">>, <<".", "j", "s", "o", "n">>,
       <<".", "x", "m", "l">>, <<".", "h", "t", "m", "l">> >>
DocumentExtensions ==
    << <<".", "d", "o", "c", "x">>, <<".", "p", "d", "f">> >>
SpreadsheetExtensions ==
    << <<".", "x", "l", "s", "x">>, <<".", "x", "l", "s">>, <<".", "c", "s", "v">> >>

Range(s) == {s[i] : i \in 1..Len(s)}

ImageLoaderSupports(file_extension) == Lower(file_extension) \in Range(ImageExtensions)
TextLoaderSupports(file_extension) == Lower(file_extension) \in Range(TextExtensions)
DocumentLoaderSupports(file_extension) == Lower(file_extension) \in Range(DocumentExtensions)
SpreadsheetLoaderSupports(file_extension) == Lower(file_extension) \in Range(SpreadsheetExtensions)

Supports(l, file_extension) ==
    CASE l = "ImageLoader" -> ImageLoaderSupports(file_extension)
      [] l = "TextLoader" -> TextLoaderSupports(file_extension)
      [] l = "DocumentLoader" -> DocumentLoaderSupports(file_extension)
      [] l = "SpreadsheetLoader" -> SpreadsheetLoaderSupports(file_extension)

\* DataLoaderFactory.__init__: self.loaders, in registration order
Loaders == <<"ImageLoader", "TextLoader", "DocumentLoader", "SpreadsheetLoader">>

\* get_loader with the `raise` inside the loop body: only the first loader is tried
get_loader_raise_in_loop(file_path) ==
    IF Supports(Loaders[1], Lower(Suffix(file_path)))
    THEN Ok(Loaders[1]) ELSE Raise("ValueError")

\* DataLoaderFactory.get_loader: first loader that supports the lowered suffix
get_loader(file_path) ==
    LET file_extension == Lower(Suffix(file_path))
        hits == {i \in 1..Len(Loaders) : Supports(Loaders[i], file_extension)}
    IN  IF hits # {}
        THEN Ok(Loaders[CHOOSE i \in hits : \A j \in hits : i <= j])
        ELSE Raise("ValueError")

-----------------------------------------------------------------------------
(* vertex_integration.py: _get_mime_type *)

MimeTypes ==
    << <<<<".", "j", "p", "g">>, "image/jpeg">>,
       <<<<".", "j", "p", "e", "g">>, "image/jpeg">>,
       <<<<".", "p", "n", "g">>, "image/png">>,
       <<<<".", "g", "i", "f">>, "image/gif">>,
       <<<<".", "b", "m", "p">>, "image/bmp">>,
       <<<<".", "w", "e", "b", "p">>, "image/webp">> >>

\* _get_mime_type without .lower()
_get_mime_type_case_sensitive(file_path) ==
    LET hits == {i \in 1..Len(MimeTypes) : MimeTypes[i][1] = Suffix(file_path)}
    IN  IF hits # {}
        THEN Ok(MimeTypes[CHOOSE i \in hits : TRUE][2])
        ELSE Ok("application/octet-stream")

_get_mime_type(file_path) ==
    LET extension == Lower(Suffix(file_path))
        hits == {i \in 1..Len(MimeTypes) : MimeTypes[i][1] = extension}
    IN  IF hits # {}
        THEN Ok(MimeTypes[CHOOSE i \in hits : TRUE][2])
        ELSE Ok("application/octet-stream")

-----------------------------------------------------------------------------
(* Paths drawn as inputs: directory prefix, stem, extension *)

Dirs == { <<>>, <<"d", ".", "p", "n", "g", "/">> }
Stems == { <<"a">>, <<>>, <<"a", ".", "t", "x", "t">> }
MixedCaseExtensions ==
    { <<".", "P", "N", "G">>, <<".", "J", "p", "g">>, <<".", "J", "P", "E", "G">>,
      <<".", "C", "S", "V">>, <<".", "X", "l", "s", "X">>, <<".", "P", "d", "f">>,
      <<".", "D", "O", "C", "X">>, <<".", "T", "X", "T">>, <<".", "M", "d">> }
UnknownExtensions ==
    { <<>>, <<".">>, <<".", "x", "y", "z">>, <<".", "p", "n">>,
      <<".", "p", "n", "g", "x">>, <<".", "X", "Y", "Z">>, <<"p", "n", "g">> }
Extensions ==
    Range(ImageExtensions) \cup Range(TextExtensions) \cup Range(DocumentExtensions)
    \cup Range(SpreadsheetExtensions) \cup MixedCaseExtensions \cup UnknownExtensions
Paths == {d \o s \o e : d \in Dirs, s \in Stems, e \in Extensions}

-----------------------------------------------------------------------------
(* Spreadsheet cells.  A cell read by pandas is either NaN (missing/null in *)
(* the file) or a value; str() of NaN is "nan".                            *)

NaN == [isna |-> TRUE]
Cell(v) == [isna |-> FALSE, v |-> v]

\* the DataFrame converted without fillna
fillna_missing(cell, value) == cell

\* DataFrame.fillna(value), cell by cell
fillna(cell, value) == IF cell.isna THEN Cell(value) ELSE cell

\* str(x) as used by an f-string replacement field
Str(cell) == IF cell.isna THEN "nan" ELSE cell.v

Min(a, b) == IF a <= b THEN a ELSE b

RECURSIVE Concat(_)
\* ''.join(pieces)
Concat(pieces) ==
    IF pieces = <<>> THEN "" ELSE Head(pieces) \o Concat(Tail(pieces))

RECURSIVE JoinPieces(_, _)
\* sep.join(items), each item and the result kept as a sequence of pieces
JoinPieces(items, sep) ==
    IF items = <<>> THEN <<>>
    ELSE IF Len(items) = 1 THEN Head(items)
    ELSE Head(items) \o <<sep>> \o JoinPieces(Tail(items), sep)

\* number of rows rendered by _spreadsheet_to_text
PreviewRows == 10

\* SpreadsheetLoader.load, given the DataFrame pandas parsed from the file
\* (f.readable = FALSE: read_csv/read_excel raised)
SpreadsheetLoaderLoad(file_path, f) ==
    IF ~f.readable THEN Raise("ParserError")
    ELSE LET df == f.df
             data_dict ==
                [columns |-> df.columns,
                 data |-> [i \in 1..Len(df.rows) |->
                             [c \in DOMAIN df.rows[i] |-> fillna(df.rows[i][c], "")]],
                 shape |-> <<Len(df.rows), Len(df.columns)>>]
             metadata ==
                [row_count |-> Len(df.rows),
                 column_count |-> Len(df.columns),
                 columns |-> df.columns,
                 file_size |-> f.size,
                 format |-> Tail(Lower(Suffix(file_path)))]
         IN  Ok([content |-> data_dict, metadata |-> metadata,
                 data_type |-> "spreadsheet", source_file |-> file_path])

\* the elision test written with >=
HasMoreRows_inclusive(shape) == shape[1] >= PreviewRows

\* `if data_dict['shape'][0] > 10`
HasMoreRows(shape) == shape[1] > PreviewRows

\* one rendered row: f"Row {i+1}: " + ', '.join(f"{col}: {row[col]}" ...)
RowLine(n, row, columns) ==
    <<"Row ", ToString(n), ": ">>
    \o JoinPieces([k \in 1..Len(columns) |->
                      <<columns[k], ": ", Str(row[columns[k]])>>], ", ")

\* GeminiVertexAIProcessor._spreadsheet_to_text; the result is the list
\* `lines`, each line a sequence of string pieces
_spreadsheet_to_text(data_dict) ==
    LET shown == SubSeq(data_dict.data, 1, Min(PreviewRows, Len(data_dict.data)))
        header ==
            << <<"Spreadsheet Data:">>,
               <<"Columns: ">> \o JoinPieces([k \in 1..Len(data_dict.columns) |->
                                                <<data_dict.columns[k]>>], ", "),
               <<"Total Rows: ", ToString(data_dict.shape[1])>>,
               <<"\nFirst 10 rows of data:">> >>
        rows == [i \in 1..Len(shown) |-> RowLine(i, shown[i], data_dict.columns)]
        elision ==
            IF HasMoreRows(data_dict.shape)
            THEN << <<"... and ", ToString(data_dict.shape[1] - PreviewRows),
                      " more rows">> >>
            ELSE <<>>
    IN  IF \E i \in 1..Len(shown) :
              \E k \in 1..Len(data_dict.columns) :
                  data_dict.columns[k] \notin DOMAIN shown[i]
        THEN Raise("KeyError")
        ELSE Ok(header \o rows \o elision)

-----------------------------------------------------------------------------
(* Tables drawn as inputs *)

ColumnLists == { <<"name", "age">>, <<"name">> }

SampleValue(col, i) ==
    IF col = "name"
    THEN (IF i = 1 THEN "Ann" ELSE IF i = 2 THEN "Bob" ELSE "n" \o ToString(i))
    ELSE "30"

\* a table of n rows whose cell (nullRow, nullCol) is missing; nullRow = 0: none
Table(columns, n, nullRow, nullCol) ==
    [columns |-> columns,
     rows |-> [i \in 1..n |->
                 [c \in Range(columns) |->
                     IF i = nullRow /\ c = nullCol THEN NaN
                     ELSE Cell(SampleValue(c, i))]]]

Tables(maxRows) ==
    {Table(cols, n, 0, "name") : cols \in ColumnLists, n \in 0..maxRows}
    \cup UNION {{Table(cols, n, r, c) :
                    cols \in ColumnLists, r \in {1, Min(2, n), n}, c \in {"name", "age"}} :
                 n \in 1..maxRows}

SheetFile(df) == [readable |-> TRUE, df |-> df, size |-> 64]
SheetPath == <<"t", ".", "c", "s", "v">>

-----------------------------------------------------------------------------
(* Initial values shared by the specifications *)

ResolveIdle == r_path = <<>> /\ r_loader = None /\ r_mime = None
SheetIdle == s_source = None /\ s_loaded = None /\ s_lines = None

-----------------------------------------------------------------------------
(* The other loaders of data_loader.py *)

\* ImageLoader.load
ImageLoaderLoad(file_path, f) ==
    IF ~f.readable THEN Raise("UnidentifiedImageError")
    ELSE Ok([content |-> f.bytes,
             metadata |-> [format |-> f.format, size |-> f.size, mode |-> f.mode,
                           file_size |-> Len(f.bytes)],
             data_type |-> "image", source_file |-> file_path])

\* len(text.splitlines()) for a text whose only line break is "\n"
LineCount(text) ==
    Cardinality({i \in 1..Len(text) : text[i] = "\n"})
    + (IF text # <<>> /\ text[Len(text)] # "\n" THEN 1 ELSE 0)

\* TextLoader.load
TextLoaderLoad(file_path, f) ==
    IF ~f.readable THEN Raise("UnicodeDecodeError")
    ELSE Ok([content |-> f.text,
             metadata |-> [file_size |-> Len(f.text), line_count |-> LineCount(f.text),
                           encoding |-> "utf-8"],
             data_type |-> "text", source_file |-> file_path])

RECURSIVE JoinLines(_)
\* '\n'.join(text_content)
JoinLines(text_content) ==
    IF text_content = <<>> THEN ""
    ELSE IF Len(text_content) = 1 THEN Head(text_content)
    ELSE Head(text_content) \o "\n" \o JoinLines(Tail(text_content))

\* a unit (paragraph or page) whose text cannot be extracted raises
UnitsFail(units) == \E i \in 1..Len(units) : ~units[i].ok

\* DocumentLoader._load_docx: paragraph.text of every paragraph, in order
_load_docx(file_path, f) ==
    IF ~f.readable THEN Raise("PackageNotFoundError")
    ELSE IF UnitsFail(f.units) THEN Raise("ExtractionError")
    ELSE Ok([content |-> JoinLines([i \in 1..Len(f.units) |-> f.units[i].text]),
             metadata |-> [paragraph_count |-> Len(f.units), file_size |-> f.size,
                           format |-> "docx"],
             data_type |-> "document", source_file |-> file_path])

\* DocumentLoader._load_pdf: a page marker and page.extract_text() per page
_load_pdf(file_path, f) ==
    IF ~f.readable THEN Raise("PdfReadError")
    ELSE IF UnitsFail(f.units) THEN Raise("ExtractionError")
    ELSE Ok([content |->
                JoinLines([k \in 1..(2 * Len(f.units)) |->
                             IF k % 2 = 1
                             THEN "--- Page " \o ToString((k + 1) \div 2) \o " ---"
                             ELSE f.units[k \div 2].text]),
             metadata |-> [page_count |-> Len(f.units), file_size |-> f.size,
                           format |-> "pdf"],
             data_type |-> "document", source_file |-> file_path])

\* DocumentLoader.load: dispatch on the lowered suffix; the exception of the
\* helper is logged and re-raised; any other suffix falls off the end
DocumentLoaderLoad(file_path, f) ==
    LET file_extension == Lower(Suffix(file_path))
    IN  IF file_extension = <<".", "d", "o", "c", "x">> THEN _load_docx(file_path, f)
        ELSE IF file_extension = <<".", "p", "d", "f">> THEN _load_pdf(file_path, f)
        ELSE Ok(None)

\* loader.load(file_path)
Load(l, file_path, f) ==
    CASE l = "ImageLoader" -> ImageLoaderLoad(file_path, f)
      [] l = "TextLoader" -> TextLoaderLoad(file_path, f)
      [] l = "DocumentLoader" -> DocumentLoaderLoad(file_path, f)
      [] l = "SpreadsheetLoader" -> SpreadsheetLoaderLoad(file_path, f)

-----------------------------------------------------------------------------
(* vertex_integration.py: _generate_prompt *)

\* the question tested after the templates, i.e. never taken
Truthy_never(question) == FALSE

\* truth value of `question` in `if question:`
Truthy(question) == question.some /\ question.v # ""

\* the dispatch with the document branch missing
SectionOf_no_document(data_type) ==
    IF data_type = "image" THEN "image_analysis"
    ELSE IF data_type = "spreadsheet" THEN "spreadsheet_analysis"
    ELSE "text_processing"

SectionOf(data_type) ==
    IF data_type = "image" THEN "image_analysis"
    ELSE IF data_type = "document" THEN "document_summary"
    ELSE IF data_type = "spreadsheet" THEN "spreadsheet_analysis"
    ELSE "text_processing"

\* dict.get(prompt_type, section['default']): the default is evaluated first
_generate_prompt(cfg, data_type, question, prompt_type) ==
    IF Truthy(question) THEN Ok(question.v)
    ELSE LET section == cfg.prompts[SectionOf(data_type)]
         IN  IF "default" \notin DOMAIN section THEN Raise("KeyError")
             ELSE IF prompt_type \in DOMAIN section THEN Ok(section[prompt_type])
             ELSE Ok(section["default"])

-----------------------------------------------------------------------------
(* Configurations drawn as inputs *)

Sections == {"image_analysis", "document_summary", "spreadsheet_analysis",
             "text_processing"}
Kinds == {"image", "text", "document", "spreadsheet"}

Template(section, key) == section \o "/" \o key

\* a config.yaml whose sections hold the keys given by keysOf
Config(keysOf, save) ==
    [gemini |-> [model |-> "gemini-model", max_tokens |-> 1024, temperature |-> 0],
     prompts |-> [sec \in Sections |-> [k \in keysOf[sec] |-> Template(sec, k)]],
     output |-> [save_results |-> save, output_directory |-> "results"]]

FullKeys == [sec \in Sections |-> {"default", "detailed"}]
DefaultOnlyKeys == [sec \in Sections |-> {"default"}]
MixedKeys == [sec \in Sections |->
                IF sec \in {"image_analysis", "text_processing"}
                THEN {"default", "detailed", "brief"} ELSE {"default"}]
\* a configuration that breaks the provider's guarantee of a default template
NoTextDefaultKeys == [sec \in Sections |->
                        IF sec = "text_processing" THEN {"detailed"}
                        ELSE {"default", "detailed"}]

Questions == {None, Some(""), Some("What is this?"), Some("image_analysis/default")}
PromptTypes == {"default", "detailed", "brief", "unknown"}

-----------------------------------------------------------------------------
(* Clock and result sink *)

\* pd.Timestamp.now(): the wall clock does not run backwards between readings
ClockReadings == now..MaxSec

\* Timestamp.isoformat() of a reading
isoformat(t) == "T" \o ToString(t)

\* Timestamp.strftime("%Y%m%d_%H%M%S"): resolution of one second
strftime(t) == ToString(t)

ResultsFileName(t) == "results_" \o strftime(t) \o ".json"

\* the metadata built from the stamps alone
MergeDict_drop_base(base, extra) == extra

\* {**base, **extra}
MergeDict(base, extra) ==
    [k \in DOMAIN base \cup DOMAIN extra |->
        IF k \in DOMAIN extra THEN extra[k] ELSE base[k]]

\* open(output_path, 'w') + json.dump: creates or truncates the file
WriteFile(dir, name, doc) ==
    [n \in DOMAIN dir \cup {name} |-> IF n = name THEN doc ELSE dir[n]]

\* the results dict built by _format_results
Results(pd, resp, pr, cfg, t) ==
    [source_file |-> pd.source_file,
     data_type |-> pd.data_type,
     prompt |-> pr,
     response |-> resp.text,
     metadata |-> MergeDict(pd.metadata,
                            [gemini_model |-> cfg.gemini.model,
                             processing_timestamp |-> isoformat(t)])]

-----------------------------------------------------------------------------
(* Inputs of the pipeline *)

PipePaths ==
    { <<"a", ".", "p", "n", "g">>, <<"a", ".", "t", "x", "t">>,
      <<"a", ".", "p", "d", "f">>, <<"a", ".", "d", "o", "c", "x">>,
      <<"a", ".", "C", "S", "V">>, <<"a", ".", "x", "y", "z">> }
PipeQuestions == {None, Some("What is this?")}
PipePromptTypes == {"detailed", "unknown"}
PipeConfigs == {Config(k, save) : k \in {FullKeys, NoTextDefaultKeys}, save \in BOOLEAN}

Unreadable == [readable |-> FALSE]
GoodUnit(i) == [ok |-> TRUE, text |-> "unit" \o ToString(i)]
BadUnit == [ok |-> FALSE]

\* the files the environment may hold at a path handled by loader l
FilesFor(l) ==
    CASE l = "ImageLoader" ->
            {Unreadable,
             [readable |-> TRUE, bytes |-> <<137, 80, 78, 71>>, format |-> "PNG",
              size |-> <<1, 1>>, mode |-> "RGB"]}
      [] l = "TextLoader" ->
            {Unreadable,
             [readable |-> TRUE, text |-> <<"h", "i", "\n", "y", "o", "\n", "!">>]}
      [] l = "DocumentLoader" ->
            {Unreadable} \cup
            {[readable |-> TRUE, units |-> u, size |-> 2048] :
                u \in { <<GoodUnit(1), GoodUnit(2)>>, <<GoodUnit(1), BadUnit>> }}
      [] l = "SpreadsheetLoader" ->
            {Unreadable, SheetFile(Table(<<"name", "age">>, 2, 2, "age"))}

-----------------------------------------------------------------------------
(* GeminiVertexAIProcessor.process_file, stage by stage *)

Stages == <<"get_loader", "load", "prompt", "send", "format", "save">>

\* the handler raising a new exception in place of the caught one
Reraise_wrapped(e) == "RuntimeError"

\* `raise` inside `except Exception as e`: the caught exception itself
Reraise(e) == e

\* a stage raised e: every enclosing handler logs and re-raises, process_file
\* ends without a return value
Abort(stage, e) ==
    /\ pc' = "raised"
    /\ error' = Some(Reraise(e))
    /\ origin' = Some([stage |-> stage, err |-> e])
    /\ result' = None

CallIdle ==
    /\ pc = "idle"
    /\ args = None
    /\ loader = None /\ file = None /\ processed_data = None /\ prompt = None
    /\ request = None /\ response = None /\ results = None
    /\ result = None /\ error = None /\ origin = None
    /\ trace = <<>> /\ genCalls = 0

ProcessFile ==
    /\ pc \in {"idle", "returned", "raised"}
    /\ calls < MaxCalls
    /\ \E fp \in PipePaths, q \in PipeQuestions, pt \in PipePromptTypes :
          args' = [file_path |-> fp, question |-> q, prompt_type |-> pt]
    /\ calls' = calls + 1
    /\ pc' = "get_loader"
    /\ loader' = None /\ file' = None /\ processed_data' = None /\ prompt' = None
    /\ request' = None /\ response' = None /\ results' = None
    /\ result' = None /\ error' = None /\ origin' = None
    /\ trace' = <<>> /\ genCalls' = 0
    /\ UNCHANGED <<config, now, outputs, saved>>

GetLoader ==
    /\ pc = "get_loader"
    /\ trace' = Append(trace, "get_loader")
    /\ LET r == get_loader(args.file_path)
       IN  IF r.ok
           THEN /\ loader' = Some(r.val)
                /\ pc' = "load"
                /\ UNCHANGED <<error, origin, result>>
           ELSE /\ Abort("get_loader", r.err)
                /\ UNCHANGED loader
    /\ UNCHANGED <<args, file, processed_data, prompt, request, response, results,
                   genCalls, procVars>>

LoadFile ==
    /\ pc = "load"
    /\ trace' = Append(trace, "load")
    /\ \E f \in FilesFor(loader.v) :
          /\ file' = Some(f)
          /\ LET r == Load(loader.v, args.file_path, f)
             IN  IF r.ok
                 THEN /\ processed_data' = (IF r.val = None THEN None ELSE Some(r.val))
                      /\ pc' = "prompt"
                      /\ UNCHANGED <<error, origin, result>>
                 ELSE /\ Abort("load", r.err)
                      /\ UNCHANGED processed_data
    /\ UNCHANGED <<args, loader, prompt, request, response, results, genCalls,
                   procVars>>

GeneratePrompt ==
    /\ pc = "prompt"
    /\ trace' = Append(trace, "prompt")
    /\ LET r == IF processed_data = None THEN Raise("AttributeError")
                ELSE _generate_prompt(config, processed_data.v.data_type,
                                      args.question, args.prompt_type)
       IN  IF r.ok
           THEN /\ prompt' = Some(r.val)
                /\ pc' = "send"
                /\ UNCHANGED <<error, origin, result>>
           ELSE /\ Abort("prompt", r.err)
                /\ UNCHANGED prompt
    /\ UNCHANGED <<args, loader, file, processed_data, request, response, results,
                   genCalls, procVars>>

\* the `contents` argument of generate_content, by data type
Contents(pd, pr) ==
    IF pd.data_type = "image"
    THEN Ok(<<[data |-> pd.content, mime_type |-> _get_mime_type(pd.source_file).val],
              pr>>)
    ELSE IF pd.data_type = "spreadsheet"
    THEN LET t == _spreadsheet_to_text(pd.content)
         IN  IF t.ok THEN Ok(<<t.val, pr>>) ELSE t
    ELSE Ok(<<pd.content, pr>>)

\* what the generation client may answer
ClientOutcomes == {Raise("GenerationError"), Ok([text |-> "ok"])}

SendToGemini ==
    /\ pc = "send"
    /\ trace' = Append(trace, "send")
    /\ LET c == Contents(processed_data.v, prompt.v)
       IN  IF ~c.ok
           THEN /\ Abort("send", c.err)
                /\ UNCHANGED <<request, response, genCalls>>
           ELSE /\ request' = Some(c.val)
                /\ genCalls' = genCalls + 1
                /\ \E r \in ClientOutcomes :
                      IF r.ok
                      THEN /\ response' = Some(r.val)
                           /\ pc' = "format"
                           /\ UNCHANGED <<error, origin, result>>
                      ELSE /\ Abort("send", r.err)
                           /\ UNCHANGED response
    /\ UNCHANGED <<args, loader, file, processed_data, prompt, results, procVars>>

FormatResults ==
    /\ pc = "format"
    /\ trace' = Append(trace, "format")
    /\ \E t \in ClockReadings :
          LET res == Results(processed_data.v, response.v, prompt.v, config, t)
          IN  /\ now' = t
              /\ results' = Some(res)
              /\ IF config.output.save_results
                 THEN /\ pc' = "save"
                      /\ UNCHANGED result
                 ELSE /\ pc' = "returned"
                      /\ result' = Some(res)
    /\ UNCHANGED <<args, loader, file, processed_data, prompt, request, response,
                   error, origin, genCalls, config, outputs, calls, saved>>

\* _save_results, called from _format_results before it returns
SaveResults ==
    /\ pc = "save"
    /\ trace' = Append(trace, "save")
    /\ \E writable \in BOOLEAN, t \in ClockReadings :
          IF writable
          THEN /\ now' = t
               /\ outputs' = WriteFile(outputs, ResultsFileName(t), results.v)
               /\ saved' = saved + 1
               /\ pc' = "returned"
               /\ result' = results
               /\ UNCHANGED <<error, origin>>
          ELSE /\ t = now
               /\ Abort("save", "OSError")
               /\ UNCHANGED <<now, outputs, saved>>
    /\ UNCHANGED <<args, loader, file, processed_data, prompt, request, response,
                   results, genCalls, config, calls>>

ProcIdle ==
    /\ now = 0
    /\ outputs = <<>>
    /\ calls = 0 /\ saved = 0
    /\ CallIdle

PromptIdle == p_in = None /\ p_out = None

Init ==
    /\ config \in PipeConfigs
    /\ ProcIdle
    /\ ResolveIdle /\ SheetIdle /\ PromptIdle

Next ==
    \/ (ProcessFile /\ UNCHANGED <<resolveVars, sheetVars, promptVars>>)
    \/ (GetLoader /\ UNCHANGED <<resolveVars, sheetVars, promptVars>>)
    \/ (LoadFile /\ UNCHANGED <<resolveVars, sheetVars, promptVars>>)
    \/ (GeneratePrompt /\ UNCHANGED <<resolveVars, sheetVars, promptVars>>)
    \/ (SendToGemini /\ UNCHANGED <<resolveVars, sheetVars, promptVars>>)
    \/ (FormatResults /\ UNCHANGED <<resolveVars, sheetVars, promptVars>>)
    \/ (SaveResults /\ UNCHANGED <<resolveVars, sheetVars, promptVars>>)

Spec == Init /\ [][Next]_vars

-----------------------------------------------------------------------------
(* SpecResolve: get_loader and _get_mime_type applied to every path of Paths *)

ParkedPipeline == config = Config(FullKeys, FALSE) /\ ProcIdle

InitResolve ==
    /\ r_path \in Paths /\ r_loader = None /\ r_mime = None
    /\ SheetIdle /\ PromptIdle /\ ParkedPipeline

CallGetLoader ==
    /\ r_loader = None
    /\ r_loader' = Some(get_loader(r_path))
    /\ UNCHANGED <<r_path, r_mime, sheetVars, promptVars, procVars, callVars>>

CallGetMimeType ==
    /\ r_mime = None
    /\ r_mime' = Some(_get_mime_type(r_path))
    /\ UNCHANGED <<r_path, r_loader, sheetVars, promptVars, procVars, callVars>>

NextResolve == CallGetLoader \/ CallGetMimeType

SpecResolve == InitResolve /\ [][NextResolve]_vars

-----------------------------------------------------------------------------
(* SpecSheet: SpreadsheetLoader.load followed by _spreadsheet_to_text *)

InitSheet ==
    /\ s_source \in {Some(SheetFile(t)) : t \in Tables(MaxRows)} \cup {Some(Unreadable)}
    /\ s_loaded = None /\ s_lines = None
    /\ ResolveIdle /\ PromptIdle /\ ParkedPipeline

CallSpreadsheetLoad ==
    /\ s_loaded = None
    /\ s_loaded' = Some(SpreadsheetLoaderLoad(SheetPath, s_source.v))
    /\ UNCHANGED <<s_source, s_lines, resolveVars, promptVars, procVars, callVars>>

CallSpreadsheetToText ==
    /\ s_loaded.some /\ s_loaded.v.ok /\ s_lines = None
    /\ s_lines' = Some(_spreadsheet_to_text(s_loaded.v.val.content))
    /\ UNCHANGED <<s_source, s_loaded, resolveVars, promptVars, procVars, callVars>>

NextSheet == CallSpreadsheetLoad \/ CallSpreadsheetToText

SpecSheet == InitSheet /\ [][NextSheet]_vars

-----------------------------------------------------------------------------
(* SpecPrompt: _generate_prompt applied to every configuration and argument *)

PromptConfigs ==
    {Config(k, FALSE) : k \in {FullKeys, DefaultOnlyKeys, MixedKeys, NoTextDefaultKeys}}

InitPrompt ==
    /\ p_in \in {Some([cfg |-> c, data_type |-> d, question |-> q, prompt_type |-> t]) :
                    c \in PromptConfigs, d \in Kinds, q \in Questions, t \in PromptTypes}
    /\ p_out = None
    /\ ResolveIdle /\ SheetIdle /\ ParkedPipeline

CallGeneratePrompt ==
    /\ p_out = None
    /\ p_out' = Some(_generate_prompt(p_in.v.cfg, p_in.v.data_type, p_in.v.question,
                                      p_in.v.prompt_type))
    /\ UNCHANGED <<p_in, resolveVars, sheetVars, procVars, callVars>>

NextPrompt == CallGeneratePrompt

SpecPrompt == InitPrompt /\ [][NextPrompt]_vars

-----------------------------------------------------------------------------
(* Properties of SpecResolve *)

RegisteredExtensions ==
    Range(ImageExtensions) \cup Range(TextExtensions) \cup Range(DocumentExtensions)
    \cup Range(SpreadsheetExtensions)

\* C1: get_loader(path) returns a loader whose supports(extension) is true when
\* the path's extension, compared case-insensitively, is in the extension set
\* of a registered loader; otherwise (no extension included) it raises
\* ValueError and returns no loader.
C1_GetLoaderContract ==
    r_loader.some =>
        LET ext == Suffix(r_path)
        IN  IF Lower(ext) \in RegisteredExtensions
            THEN /\ r_loader.v.ok
                 /\ r_loader.v.val \in Range(Loaders)
                 /\ Supports(r_loader.v.val, ext)
            ELSE r_loader.v = Raise("ValueError")

C1_Witness ==
    /\ r_loader = Some(Ok("SpreadsheetLoader"))
    /\ Suffix(r_path) = <<".", "C", "S", "V">>

\* C7: _get_mime_type never raises; an extension of the fixed table, compared
\* case-insensitively, gives its image MIME type and every other extension,
\* or none, gives application/octet-stream.
C7_MimeTypeTotal ==
    r_mime.some =>
        LET ext == Lower(Suffix(r_path))
            expected ==
                IF ext \in { <<".", "j", "p", "g">>, <<".", "j", "p", "e", "g">> }
                THEN "image/jpeg"
                ELSE IF ext = <<".", "p", "n", "g">> THEN "image/png"
                ELSE IF ext = <<".", "g", "i", "f">> THEN "image/gif"
                ELSE IF ext = <<".", "b", "m", "p">> THEN "image/bmp"
                ELSE IF ext = <<".", "w", "e", "b", "p">> THEN "image/webp"
                ELSE "application/octet-stream"
        IN  r_mime.v = Ok(expected)

C7_Witness ==
    /\ r_mime = Some(Ok("image/png"))
    /\ Suffix(r_path) = <<".", "P", "N", "G">>

-----------------------------------------------------------------------------
(* Properties of SpecSheet *)

SourceRows == s_source.v.df.rows
SourceColumns == s_source.v.df.columns
RenderedLines == s_lines.v.val
ShownCount == IF Len(SourceRows) < 10 THEN Len(SourceRows) ELSE 10

\* C2: a table of N rows is rendered as exactly min(N, 10) row lines, numbered
\* Row 1 .. Row min(N, 10) in table order, and the line "... and (N-10) more
\* rows" is appended if and only if N > 10.
C2_RowLinesAndElision ==
    (s_lines.some /\ s_lines.v.ok) =>
        LET n == Len(SourceRows)
            rowIdx == {j \in 1..Len(RenderedLines) : RenderedLines[j][1] = "Row "}
            elisionIdx == {j \in 1..Len(RenderedLines) : RenderedLines[j][1] = "... and "}
        IN  /\ rowIdx = 5..(4 + ShownCount)
            /\ \A i \in 1..ShownCount :
                  /\ SubSeq(RenderedLines[4 + i], 1, 3) = <<"Row ", ToString(i), ": ">>
                  /\ ~SourceRows[i]["name"].isna =>
                        RenderedLines[4 + i][6] = SourceRows[i]["name"].v
            /\ (n > 10 =>
                  /\ elisionIdx = {Len(RenderedLines)}
                  /\ RenderedLines[Len(RenderedLines)] =
                        <<"... and ", ToString(n - 10), " more rows">>)
            /\ (n <= 10 => elisionIdx = {})

C2_Witness ==
    /\ s_lines.some /\ s_lines.v.ok
    /\ Len(SourceRows) = 15
    /\ Len(RenderedLines) = 15
    /\ Concat(RenderedLines[15]) = "... and 5 more rows"

\* C8: a cell that is null/missing in the file is stored by
\* SpreadsheetLoader.load as the empty string and rendered as `col: ` followed
\* by nothing, never as "null", "None" or "nan"; every row mapping has exactly
\* the declared columns, so rendering a row never fails on a missing key.
C8_NullCellsRenderEmpty ==
    /\ (s_loaded.some /\ s_loaded.v.ok) =>
          LET data == s_loaded.v.val.content.data
          IN  /\ Len(data) = Len(SourceRows)
              /\ \A i \in 1..Len(data) :
                    /\ DOMAIN data[i] = Range(s_loaded.v.val.content.columns)
                    /\ \A c \in DOMAIN data[i] :
                          SourceRows[i][c].isna => data[i][c] = Cell("")
    /\ s_lines.some =>
          /\ s_lines.v.ok
          /\ \A i \in 1..ShownCount :
                /\ \A k \in 1..Len(SourceColumns) :
                      SourceRows[i][SourceColumns[k]].isna =>
                          /\ RenderedLines[4 + i][4 * k] = SourceColumns[k]
                          /\ RenderedLines[4 + i][4 * k + 1] = ": "
                          /\ RenderedLines[4 + i][4 * k + 2] = ""
                /\ Range(RenderedLines[4 + i]) \cap {"null", "None", "nan"} = {}

C8_Witness ==
    /\ s_lines.some /\ s_lines.v.ok
    /\ Len(SourceRows) >= 2 /\ SourceColumns = <<"name", "age">>
    /\ SourceRows[2]["age"].isna
    /\ Concat(RenderedLines[6]) = "Row 2: name: Bob, age: "

-----------------------------------------------------------------------------
(* Properties of SpecPrompt *)

PromptSection ==
    p_in.v.cfg.prompts[
        CASE p_in.v.data_type = "image" -> "image_analysis"
          [] p_in.v.data_type = "text" -> "text_processing"
          [] p_in.v.data_type = "document" -> "document_summary"
          [] p_in.v.data_type = "spreadsheet" -> "spreadsheet_analysis"]

\* C4 as stated: whenever the caller supplies a question string, the selected
\* prompt is exactly that question, for every kind, prompt_type and
\* configuration.
C4_QuestionAlwaysWins ==
    (p_out.some /\ p_out.v.ok /\ p_in.v.question.some) =>
        p_out.v.val = p_in.v.question.v

\* C4 amended: whenever the caller supplies a non-empty question string, the
\* selected prompt is exactly that question, for every kind, prompt_type and
\* configuration; no template is looked up.
C4_NonEmptyQuestionWins ==
    (p_out.some /\ p_in.v.question.some /\ p_in.v.question.v # "") =>
        p_out.v = Ok(p_in.v.question.v)

C4_Witness ==
    /\ p_out = Some(Ok("What is this?"))
    /\ p_in.v.prompt_type \in DOMAIN PromptSection
    /\ PromptSection[p_in.v.prompt_type] # "What is this?"

\* C5: with no question, for each kind a prompt_type that is a key of that
\* kind's template mapping selects that template and any other prompt_type
\* selects that kind's default template, given the default entry is present.
C5_TemplateOrDefault ==
    (p_out.some /\ p_in.v.question = None /\ "default" \in DOMAIN PromptSection) =>
        p_out.v = Ok(IF p_in.v.prompt_type \in DOMAIN PromptSection
                     THEN PromptSection[p_in.v.prompt_type]
                     ELSE PromptSection["default"])

C5_Witness ==
    /\ p_out = Some(Ok("document_summary/default"))
    /\ p_in.v.question = None
    /\ p_in.v.data_type = "document"
    /\ p_in.v.prompt_type = "brief"

-----------------------------------------------------------------------------
(* Properties of Spec *)

StageIndex(st) == CHOOSE i \in 1..Len(Stages) : Stages[i] = st

\* C3: a failure in any stage of process_file reaches the caller as that same
\* error; no envelope is returned, no stage runs after the failing one (the
\* generation client and the result sink are not invoked after an earlier
\* failure) and no stage is executed twice, so the generation client is called
\* at most once per call.
C3_FailurePropagates ==
    /\ \A i \in 1..Len(trace) : i <= Len(Stages) /\ trace[i] = Stages[i]
    /\ genCalls <= 1
    /\ genCalls = 1 => "send" \in Range(trace)
    /\ pc = "raised" =>
          /\ result = None
          /\ origin.some /\ error = Some(origin.v.err)
          /\ trace = SubSeq(Stages, 1, StageIndex(origin.v.stage))
          /\ StageIndex(origin.v.stage) < StageIndex("send") => genCalls = 0
    /\ error.some => pc = "raised"

C3_Witness ==
    /\ pc = "raised"
    /\ origin = Some([stage |-> "send", err |-> "GenerationError"])
    /\ genCalls = 1
    /\ config.output.save_results

KindOf(l) ==
    CASE l = "ImageLoader" -> "image"
      [] l = "TextLoader" -> "text"
      [] l = "DocumentLoader" -> "document"
      [] l = "SpreadsheetLoader" -> "spreadsheet"

\* C6: when every stage succeeds, the envelope has source_file equal to the
\* given path, data_type equal to the kind of the record the resolved loader
\* produced, prompt equal to the selected prompt, response equal to the text
\* the generation client returned, and metadata holding every key/value of the
\* loader's metadata plus gemini_model and processing_timestamp.
C6_EnvelopeContents ==
    pc = "returned" =>
        /\ result.some
        /\ result.v.source_file = args.file_path
        /\ result.v.data_type = processed_data.v.data_type
        /\ result.v.data_type = KindOf(loader.v)
        /\ result.v.prompt = prompt.v
        /\ result.v.response = response.v.text
        /\ \A k \in DOMAIN processed_data.v.metadata :
              /\ k \in DOMAIN result.v.metadata
              /\ result.v.metadata[k] = processed_data.v.metadata[k]
        /\ DOMAIN result.v.metadata =
              DOMAIN processed_data.v.metadata \cup {"gemini_model", "processing_timestamp"}
        /\ result.v.metadata["gemini_model"] = config.gemini.model

C6_Witness ==
    /\ pc = "returned"
    /\ result.v.data_type = "spreadsheet"
    /\ result.v.response = "ok"
    /\ result.v.prompt = "spreadsheet_analysis/detailed"
    /\ result.v.metadata["row_count"] = 2
    /\ \E j \in 1..Len(request.v[1]) :
          Concat(request.v[1][j]) = "Row 2: name: Bob, age: "

\* C9: with saving enabled every successful process_file call persists a JSON
\* document of its own, so n successful calls leave n documents, none
\* overwritten by a later call, also when calls complete within the same
\* filename timestamp; with saving disabled nothing is persisted.
C9_OneDocumentPerCall ==
    /\ config.output.save_results => Cardinality(DOMAIN outputs) = saved
    /\ ~config.output.save_results => outputs = <<>>

\* C10: DocumentLoader.load on a readable document in which one page or
\* paragraph cannot be extracted does not abort: it returns a record with the
\* text of the other units; only an unparsable container fails the load.
C10_PartialDocumentLoaded ==
    (/\ loader = Some("DocumentLoader")
     /\ "load" \in Range(trace)
     /\ file.v.readable) =>
        /\ processed_data.some
        /\ ~(origin.some /\ origin.v.stage = "load")

====
